---- MODULE Spec2Model ----
\* Model of the GPS backend's edge-property legality pass
\* (src/src/backend_gps/gm_gps_new_check_edge_value.cc).
\*
\* The pass is a visitor, gps_check_edge_value_t, driven over one
\* procedure's AST by traverse_both: the statement callback apply in
\* pre-order, then the statement's symbol-table entries and expressions,
\* then its child statements, then apply2 in post-order.  The AST is the
\* input: it is produced here on the fly, one visited node per step, so
\* that every tree within the bounds is traversed.  `stack` holds the
\* statements that are open (entered, not yet left); the element below a
\* statement is its parent, the element below the first is the procedure
\* definition, whose parent is NULL.
EXTENDS Integers, Sequences, FiniteSets, TLC

\* ------------------------------------------------------------ bounds
\* Statement nodes in the procedure, its body block included.
MaxStmts == 5
\* Field-access / identifier expression nodes visited.
MaxExprs == 1
\* Open statements at any time (nesting depth).
MaxDepth == 5
\* In SpecFsm: assignments in the inner loop's body, and expressions.
MaxFsmStmts == 4
MaxFsmExprs == 4
\* In SpecLoops: statements after the first inner loop's block is entered,
\* and expressions.
MaxLoopsStmts == 6
MaxLoopsExprs == 2

\* ------------------------------------------------------------ constants
NULL == 0
SENDING == 1
WRITING == 2

\* GPS_ENUM_EDGE_VALUE_xxx, and a missing map entry (find_info_map_value
\* returning NULL).
NO_STATE == "NULL"
GPS_ENUM_EDGE_VALUE_WRITE == "WRITE"
GPS_ENUM_EDGE_VALUE_SENT == "SENT"
GPS_ENUM_EDGE_VALUE_WRITE_SENT == "WRITE_SENT"
GPS_ENUM_EDGE_VALUE_SENT_WRITE == "SENT_WRITE"
GPS_ENUM_EDGE_VALUE_ERROR == "ERROR"

EdgeValues ==
    {GPS_ENUM_EDGE_VALUE_WRITE, GPS_ENUM_EDGE_VALUE_SENT,
     GPS_ENUM_EDGE_VALUE_WRITE_SENT, GPS_ENUM_EDGE_VALUE_SENT_WRITE,
     GPS_ENUM_EDGE_VALUE_ERROR}

\* The scope classes an expression carries under GPS_INT_EXPR_SCOPE (an
\* int-shaped annotation written by an earlier pass).
GPS_NEW_SCOPE_GLOBAL == 0
GPS_NEW_SCOPE_OUT == 1
GPS_NEW_SCOPE_EDGE == 2
GPS_NEW_SCOPE_IN == 3
GPS_NEW_SCOPE_RANDOM == 4

Scopes ==
    {GPS_NEW_SCOPE_GLOBAL, GPS_NEW_SCOPE_OUT, GPS_NEW_SCOPE_EDGE,
     GPS_NEW_SCOPE_IN, GPS_NEW_SCOPE_RANDOM}

\* ------------------------------------------------------------ inputs
\* Symbols of the procedure and their types.  "e" and "f" are Edge
\* variables, "t" is an edge iterator (edge-compatible, not is_edge), "s" a
\* node iterator, "x" a scalar.  "A", "B" are edge properties.
EdgeSyms == {"e", "f"}
Syms == EdgeSyms \cup {"t", "s", "x"}
Props == {"A", "B"}

\* The scope classes of the expressions enumerated.
ExprScopes == {GPS_NEW_SCOPE_OUT, GPS_NEW_SCOPE_IN, GPS_NEW_SCOPE_RANDOM}

is_edge(sym) == sym \in EdgeSyms
is_edge_compatible(sym) == sym \in EdgeSyms \cup {"t"}

\* Symbols whose symbol-table entry the traversal visits at the start of the
\* scope declaring them.  (The entries of "s" and "x" are of no edge type:
\* visiting them changes nothing, and they are taken as declared.)
DeclSyms == EdgeSyms \cup {"t"}

\* The symbols the procedures traversed under Spec declare.
SpecDeclSyms == {"e", "t"}

Nodes == 1..(MaxStmts + MaxFsmStmts)

StmtKinds == {"AST_SENTBLOCK", "AST_FOREACH", "AST_WHILE", "AST_IF", "AST_ASSIGN"}

RhsKinds == {"GM_BLTIN_NODE_TO_EDGE", "BUILTIN", "EXPR"}

\* The symbol driving a builtin call (b_rhs->get_driver()): the iterator of
\* the foreach of that identity, or NULL for a symbol that is no iterator.
Drivers == {NULL} \cup (2..MaxStmts)

\* What an assignment is: scalar or field target, the target's symbols, the
\* form of the right-hand side's root and, for a builtin, its driver.
Assigns ==
    [scalar : {TRUE}, first : EdgeSyms, second : {"A"},
     rhs : {"GM_BLTIN_NODE_TO_EDGE", "BUILTIN"}, drv : Drivers]
    \cup [scalar : {TRUE}, first : EdgeSyms \cup {"x"}, second : {"A"},
          rhs : {"EXPR"}, drv : {NULL}]
    \cup [scalar : {FALSE}, first : EdgeSyms \cup {"t", "s"}, second : Props,
          rhs : {"EXPR"}, drv : {NULL}]

\* The target of an assignment, kept with the open statement.
Lhs(a) == [scalar |-> a.scalar, first |-> a.first, second |-> a.second]
NoAssign == [scalar |-> TRUE, first |-> "x", second |-> "A"]

\* Visited expression nodes that the pass looks at: field accesses and
\* identifiers, each with its scope class.  (Other expression nodes change
\* nothing and are not counted.)
Exprs ==
    [form : {"field"}, first : EdgeSyms \cup {"t", "s"}, second : Props, scope : ExprScopes]
    \cup [form : {"id"}, first : {"s", "x"}, second : {"A"}, scope : ExprScopes]

VARIABLES
    stack,                 \* open statements, the innermost last (parent links)
    nextId,                \* identity of the next statement node
    atScopeStart,          \* the engine is at the top statement's symtab
    nExprs,                \* expression nodes visited so far
    symScope,              \* sym -> statement whose scope declares it, or NULL
    pc,                    \* "run" | "done" | "abort" (a failed assert)
    ret,                   \* what the last callback returned
    inner_iter,            \* gps_check_edge_value_t::inner_iter
    inner_loop,            \* gps_check_edge_value_t::inner_loop
    target_is_edge_prop,   \* gps_check_edge_value_t::target_is_edge_prop
    _error,                \* gps_check_edge_value_t::_error
    okay,                  \* the step's result: "unset" | "ok" | "failed"
    MAP_EDGE_PROP_ACCESS,  \* foreach -> (symbol -> state)
    EDGE_DEFINED_INNER,    \* edge symbols carrying GPS_FLAG_EDGE_DEFINED_INNER
    EDGE_DEFINING_INNER,   \* foreachs carrying GPS_FLAG_EDGE_DEFINING_INNER
    LIST_EDGE_PROP_WRITE,  \* foreach -> list of assignments
    EDGE_DEFINING_WRITE,   \* assignments carrying GPS_FLAG_EDGE_DEFINING_WRITE
    reports,               \* gm_backend_error calls, in order
    events,                \* history: (foreach, symbol) -> ops applied to it
    declInner,             \* history: edge symbols declared inside an inner loop
    binds                  \* history: edge symbol -> its binding assignments

vars ==
    <<stack, nextId, atScopeStart, nExprs, symScope, pc, ret, inner_iter,
      inner_loop, target_is_edge_prop, _error, okay, MAP_EDGE_PROP_ACCESS,
      EDGE_DEFINED_INNER, EDGE_DEFINING_INNER, LIST_EDGE_PROP_WRITE,
      EDGE_DEFINING_WRITE, reports, events, declInner, binds>>

\* ------------------------------------------------------------ helpers
Top == stack[Len(stack)]

\* The statement record of a node.
Stmt(kind, id, inner, a) == [kind |-> kind, id |-> id, is_inner |-> inner, a |-> a]

OnStack(id) == \E i \in 1..Len(stack) : stack[i].id = id

\* A declared symbol can be named while the scope declaring it is open.
Visible(sym) ==
    IF sym \in DeclSyms THEN symScope[sym] # NULL /\ OnStack(symScope[sym]) ELSE TRUE

\* The iterator drv can be named while its foreach is open.
DriverVisible(drv) ==
    drv = NULL \/ \E i \in 1..Len(stack) :
                     stack[i].id = drv /\ stack[i].kind = "AST_FOREACH"

\* A gm_backend_error call: the error, the statement it is located in (for
\* its line and column), the name it prints, and the loop and property of
\* the access it is about.
Report(kind, at, name, loop, prop) ==
    [kind |-> kind, at |-> at, name |-> name, loop |-> loop, prop |-> prop]

\* bool -> int, the integral promotion of a bool compared with an enumerator.
BoolToInt(b) == IF b THEN 1 ELSE 0

\* The annotation store's entry for an int payload and its read through the
\* bool accessor: add_info_int sets the entry's int, find_info_bool returns
\* the entry's bool, which an int entry never sets.
add_info_int(i) == [ival |-> i, bval |-> FALSE]
find_info_bool(info) == info.bval

\* The walk up the parent links from an edge-property assignment, `parent`
\* being the i-th open statement (0: the procedure definition, whose parent
\* is NULL): "simple" when it meets the inner loop, "conditional" when it
\* meets a while, an if or a foreach first, "assert" when it runs off the
\* tree (assert(parent != NULL)).
\* Mutant of check_conditional: a while is not taken as conditional.
RECURSIVE check_conditional_without_while(_, _, _)
check_conditional_without_while(stk, i, loop) ==
    IF i >= 1 /\ stk[i].id = loop THEN "simple"
    ELSE IF i >= 1 /\ stk[i].kind \in {"AST_IF", "AST_FOREACH"}
         THEN "conditional"
    ELSE IF i = 0 THEN "assert"
    ELSE check_conditional_without_while(stk, i - 1, loop)

RECURSIVE check_conditional(_, _, _)
check_conditional(stk, i, loop) ==
    IF i >= 1 /\ stk[i].id = loop THEN "simple"
    ELSE IF i >= 1 /\ stk[i].kind \in {"AST_WHILE", "AST_IF", "AST_FOREACH"}
         THEN "conditional"
    ELSE IF i = 0 THEN "assert"
    ELSE check_conditional(stk, i - 1, loop)

\* ------------------------------------------------------------ state machine
\* Mutant of find_info_map_value: the map is keyed by the symbol alone, the
\* entry of the first loop that has one is found from every loop.
find_info_map_value_of_any_loop(map, fe, e) ==
    LET S == {l \in DOMAIN map : map[l][e] # NO_STATE}
    IN  IF S = {} THEN NO_STATE
        ELSE map[CHOOSE l \in S : \A m \in S : l <= m][e]

\* fe->find_info_map_value(GPS_MAP_EDGE_PROP_ACCESS, e): the entry of symbol
\* e in the map of foreach fe, NO_STATE when there is none.
find_info_map_value(map, fe, e) == map[fe][e]

\* Mutant of add_info_list_element: the element is put in front.
add_info_list_element_in_front(list, s) == <<s>> \o list

\* inner_loop->add_info_list_element(GPS_LIST_EDGE_PROP_WRITE, s)
add_info_list_element(list, s) == Append(list, s)

\* Mutants of manage_edge_prop_access_state.
\* WRITE_SENT + write keeps WRITE_SENT.
manage_keeps_write_sent(curr_state, op) ==
    IF curr_state = NO_STATE
    THEN [state |-> IF op = SENDING THEN GPS_ENUM_EDGE_VALUE_SENT
                                    ELSE GPS_ENUM_EDGE_VALUE_WRITE,
          is_error |-> FALSE]
    ELSE CASE curr_state = GPS_ENUM_EDGE_VALUE_ERROR ->
                [state |-> curr_state, is_error |-> FALSE]
           [] curr_state = GPS_ENUM_EDGE_VALUE_WRITE ->
                [state |-> IF op = SENDING THEN GPS_ENUM_EDGE_VALUE_WRITE_SENT
                                          ELSE curr_state,
                 is_error |-> FALSE]
           [] curr_state = GPS_ENUM_EDGE_VALUE_SENT ->
                [state |-> IF op = WRITING THEN GPS_ENUM_EDGE_VALUE_SENT_WRITE
                                          ELSE curr_state,
                 is_error |-> FALSE]
           [] curr_state = GPS_ENUM_EDGE_VALUE_WRITE_SENT ->
                [state |-> curr_state, is_error |-> FALSE]
           [] curr_state = GPS_ENUM_EDGE_VALUE_SENT_WRITE ->
                IF op = SENDING
                THEN [state |-> GPS_ENUM_EDGE_VALUE_ERROR, is_error |-> TRUE]
                ELSE [state |-> curr_state, is_error |-> FALSE]

\* The SENT case reports a send as the SENT_WRITE case does (a misplaced
\* case label).
manage_reports_in_sent(curr_state, op) ==
    IF curr_state = NO_STATE
    THEN [state |-> IF op = SENDING THEN GPS_ENUM_EDGE_VALUE_SENT
                                    ELSE GPS_ENUM_EDGE_VALUE_WRITE,
          is_error |-> FALSE]
    ELSE CASE curr_state = GPS_ENUM_EDGE_VALUE_ERROR ->
                [state |-> curr_state, is_error |-> FALSE]
           [] curr_state = GPS_ENUM_EDGE_VALUE_WRITE ->
                [state |-> IF op = SENDING THEN GPS_ENUM_EDGE_VALUE_WRITE_SENT
                                          ELSE curr_state,
                 is_error |-> FALSE]
           [] curr_state = GPS_ENUM_EDGE_VALUE_SENT ->
                [state |-> IF op = WRITING THEN GPS_ENUM_EDGE_VALUE_SENT_WRITE
                                          ELSE curr_state,
                 is_error |-> op = SENDING]
           [] curr_state = GPS_ENUM_EDGE_VALUE_WRITE_SENT ->
                [state |-> IF op = WRITING THEN GPS_ENUM_EDGE_VALUE_SENT_WRITE
                                          ELSE curr_state,
                 is_error |-> FALSE]
           [] curr_state = GPS_ENUM_EDGE_VALUE_SENT_WRITE ->
                IF op = SENDING
                THEN [state |-> GPS_ENUM_EDGE_VALUE_ERROR, is_error |-> TRUE]
                ELSE [state |-> curr_state, is_error |-> FALSE]

\* The ERROR case is missing: ERROR is handled as SENT_WRITE is.
manage_without_error_case(curr_state, op) ==
    IF curr_state = NO_STATE
    THEN [state |-> IF op = SENDING THEN GPS_ENUM_EDGE_VALUE_SENT
                                    ELSE GPS_ENUM_EDGE_VALUE_WRITE,
          is_error |-> FALSE]
    ELSE CASE curr_state = GPS_ENUM_EDGE_VALUE_WRITE ->
                [state |-> IF op = SENDING THEN GPS_ENUM_EDGE_VALUE_WRITE_SENT
                                          ELSE curr_state,
                 is_error |-> FALSE]
           [] curr_state = GPS_ENUM_EDGE_VALUE_SENT ->
                [state |-> IF op = WRITING THEN GPS_ENUM_EDGE_VALUE_SENT_WRITE
                                          ELSE curr_state,
                 is_error |-> FALSE]
           [] curr_state = GPS_ENUM_EDGE_VALUE_WRITE_SENT ->
                [state |-> IF op = WRITING THEN GPS_ENUM_EDGE_VALUE_SENT_WRITE
                                          ELSE curr_state,
                 is_error |-> FALSE]
           [] curr_state \in {GPS_ENUM_EDGE_VALUE_SENT_WRITE, GPS_ENUM_EDGE_VALUE_ERROR} ->
                IF op = SENDING
                THEN [state |-> GPS_ENUM_EDGE_VALUE_ERROR, is_error |-> TRUE]
                ELSE [state |-> curr_state, is_error |-> FALSE]

\* manage_edge_prop_access_state on the entry curr_state of the loop's map
\* (NO_STATE: no entry yet): the entry afterwards and the value returned.
manage_edge_prop_access_state(curr_state, op) ==
    IF curr_state = NO_STATE
    THEN [state |-> IF op = SENDING THEN GPS_ENUM_EDGE_VALUE_SENT
                                    ELSE GPS_ENUM_EDGE_VALUE_WRITE,
          is_error |-> FALSE]
    ELSE CASE curr_state = GPS_ENUM_EDGE_VALUE_ERROR ->
                [state |-> curr_state, is_error |-> FALSE]
           [] curr_state = GPS_ENUM_EDGE_VALUE_WRITE ->
                [state |-> IF op = SENDING THEN GPS_ENUM_EDGE_VALUE_WRITE_SENT
                                          ELSE curr_state,
                 is_error |-> FALSE]
           [] curr_state = GPS_ENUM_EDGE_VALUE_SENT ->
                [state |-> IF op = WRITING THEN GPS_ENUM_EDGE_VALUE_SENT_WRITE
                                          ELSE curr_state,
                 is_error |-> FALSE]
           [] curr_state = GPS_ENUM_EDGE_VALUE_WRITE_SENT ->
                [state |-> IF op = WRITING THEN GPS_ENUM_EDGE_VALUE_SENT_WRITE
                                          ELSE curr_state,
                 is_error |-> FALSE]
           [] curr_state = GPS_ENUM_EDGE_VALUE_SENT_WRITE ->
                IF op = SENDING
                THEN [state |-> GPS_ENUM_EDGE_VALUE_ERROR, is_error |-> TRUE]
                ELSE [state |-> curr_state, is_error |-> FALSE]

\* ------------------------------------------------------------ the pass
Init ==
    /\ stack = <<Stmt("AST_SENTBLOCK", 1, FALSE, NoAssign)>>
    /\ nextId = 2
    /\ atScopeStart = TRUE
    /\ nExprs = 0
    /\ symScope = [sym \in DeclSyms |-> NULL]
    /\ pc = "run"
    /\ ret = TRUE
    /\ inner_iter = NULL
    /\ inner_loop = NULL
    /\ target_is_edge_prop = FALSE
    /\ _error = FALSE
    /\ okay = "unset"
    /\ MAP_EDGE_PROP_ACCESS = [fe \in Nodes |-> [e \in Props |-> NO_STATE]]
    /\ EDGE_DEFINED_INNER = {}
    /\ EDGE_DEFINING_INNER = {}
    /\ LIST_EDGE_PROP_WRITE = [fe \in Nodes |-> <<>>]
    /\ EDGE_DEFINING_WRITE = {}
    /\ reports = <<>>
    /\ events = [fe \in Nodes |-> [e \in Props |-> <<>>]]
    /\ declInner = {}
    /\ binds = [sym \in EdgeSyms |-> [n |-> 0, to_edge_inner |-> 0]]

\* The traversal goes on: no assert has failed and no callback has asked
\* to stop.
Running == pc = "run" /\ ret = TRUE /\ stack # <<>>

HasBody(s) == s.kind \in {"AST_SENTBLOCK", "AST_FOREACH", "AST_WHILE", "AST_IF"}

\* The next node is a child statement of the top statement.
CanEnter == Running /\ HasBody(Top)

\* The bounds on the tree: n statement nodes, nesting depth d, m expressions.
StmtRoom(n, d) == nextId <= n /\ Len(stack) < d
ExprRoom(m) == nExprs < m

\* A loop marked GPS_FLAG_IS_INNER_LOOP is open.
InnerOpen == \E i \in 1..Len(stack) : stack[i].is_inner

Push(s) == stack' = Append(stack, s) /\ nextId' = nextId + 1

\* Mutant of apply_return: a callback stops the traversal once the pass has
\* failed.
apply_return_stops_on_error == ~_error

\* What every callback returns.
apply_return == TRUE

\* Mutant of set_error: the setter leaves the flag as it is.
set_error_dropped(b) == _error

\* set_error(b): the new value of _error.
set_error(b) == b

\* apply(ast_sent*), s a foreach.  Loops marked as inner loops do not nest.
apply_sent_foreach(is_inner) ==
    /\ CanEnter
    /\ is_inner => ~InnerOpen
    /\ Push(Stmt("AST_FOREACH", nextId, is_inner, NoAssign))
    /\ atScopeStart' = TRUE
    /\ IF is_inner
       THEN inner_iter' = nextId /\ inner_loop' = nextId
       ELSE UNCHANGED <<inner_iter, inner_loop>>
    /\ ret' = apply_return
    /\ UNCHANGED <<nExprs, symScope, pc, target_is_edge_prop, _error, okay,
                   MAP_EDGE_PROP_ACCESS, EDGE_DEFINED_INNER, EDGE_DEFINING_INNER,
                   LIST_EDGE_PROP_WRITE, EDGE_DEFINING_WRITE, reports, events,
                   declInner, binds>>

\* apply(ast_sent*), s a block, a while or an if: nothing to do.
apply_sent_other(kind) ==
    /\ CanEnter
    /\ Push(Stmt(kind, nextId, FALSE, NoAssign))
    /\ atScopeStart' = (kind = "AST_SENTBLOCK")
    /\ ret' = apply_return
    /\ UNCHANGED <<nExprs, symScope, pc, inner_iter, inner_loop,
                   target_is_edge_prop, _error, okay, MAP_EDGE_PROP_ACCESS,
                   EDGE_DEFINED_INNER, EDGE_DEFINING_INNER, LIST_EDGE_PROP_WRITE,
                   EDGE_DEFINING_WRITE, reports, events, declInner, binds>>

\* The assignment writes a property through an edge variable defined in the
\* inner loop.
assign_is_edge_prop_write(a, defined_inner) ==
    /\ ~a.scalar
    /\ is_edge_compatible(a.first)
    /\ a.first \in defined_inner

\* The assignment defines an edge variable of the inner loop as ToEdge().
assign_is_edge_defining(a, defined_inner) ==
    /\ a.scalar
    /\ is_edge(a.first)
    /\ a.first \in defined_inner
    /\ a.rhs = "GM_BLTIN_NODE_TO_EDGE"

\* Mutant of assign_records_write: the pre-order visit records no write.
assign_records_no_write(conditional) == FALSE

\* Mutant of assign_records_write: a write reported as conditional is not
\* recorded.
assign_records_simple_write(conditional) == ~conditional

\* After the report of a conditional write the code goes on: the write is
\* recorded whether it was reported or not.
assign_records_write(conditional) == TRUE

\* apply(ast_sent*), s an assignment a.
apply_sent_assign(a) ==
    /\ CanEnter
    /\ Visible(a.first)
    /\ DriverVisible(a.drv)
    /\ Push(Stmt("AST_ASSIGN", nextId, FALSE, Lhs(a)))
    /\ atScopeStart' = FALSE
    /\ ret' = apply_return
    /\ binds' = IF a.scalar /\ is_edge(a.first)
                THEN [binds EXCEPT ![a.first] =
                        [n |-> @.n + 1,
                         to_edge_inner |-> @.to_edge_inner +
                             (IF a.rhs = "GM_BLTIN_NODE_TO_EDGE" /\ InnerOpen
                              THEN 1 ELSE 0)]]
                ELSE binds
    /\ UNCHANGED <<nExprs, symScope, inner_iter, inner_loop, okay,
                   EDGE_DEFINED_INNER, EDGE_DEFINING_INNER, declInner>>
    /\ EDGE_DEFINING_WRITE' =
          IF assign_is_edge_defining(a, EDGE_DEFINED_INNER)
          THEN EDGE_DEFINING_WRITE \cup {nextId}
          ELSE EDGE_DEFINING_WRITE
    /\ IF assign_is_edge_prop_write(a, EDGE_DEFINED_INNER)
       THEN LET w == check_conditional(stack, Len(stack), inner_loop)
                b == manage_edge_prop_access_state(
                         find_info_map_value(MAP_EDGE_PROP_ACCESS, inner_loop,
                                             a.second), WRITING)
            IN  IF w = "assert"
                THEN /\ pc' = "abort"
                     /\ UNCHANGED <<target_is_edge_prop, _error,
                                    MAP_EDGE_PROP_ACCESS, LIST_EDGE_PROP_WRITE,
                                    reports, events>>
                ELSE /\ reports' =
                          IF w = "conditional"
                          THEN Append(reports,
                                   Report("EDGE_WRITE_CONDITIONAL", nextId,
                                          "", inner_loop, a.second))
                          ELSE reports
                     /\ _error' = IF w = "conditional" THEN set_error(TRUE) ELSE _error
                     /\ target_is_edge_prop' = TRUE
                     /\ IF ~assign_records_write(w = "conditional")
                        THEN UNCHANGED <<pc, MAP_EDGE_PROP_ACCESS,
                                         LIST_EDGE_PROP_WRITE, events>>
                        ELSE IF inner_loop = NULL
                        THEN /\ pc' = "abort"
                             /\ UNCHANGED <<MAP_EDGE_PROP_ACCESS,
                                            LIST_EDGE_PROP_WRITE, events>>
                        ELSE /\ LIST_EDGE_PROP_WRITE' =
                                  [LIST_EDGE_PROP_WRITE EXCEPT
                                      ![inner_loop] =
                                          add_info_list_element(@, nextId)]
                             /\ MAP_EDGE_PROP_ACCESS' =
                                  [MAP_EDGE_PROP_ACCESS EXCEPT
                                      ![inner_loop][a.second] = b.state]
                             /\ events' =
                                  [events EXCEPT
                                      ![inner_loop][a.second] = Append(@, WRITING)]
                             /\ pc' = IF b.is_error THEN "abort" ELSE pc
       ELSE UNCHANGED <<pc, target_is_edge_prop, _error, MAP_EDGE_PROP_ACCESS,
                        LIST_EDGE_PROP_WRITE, reports, events>>

\* Mutant of symtab_defined_inner: every edge variable is flagged.
symtab_defined_anywhere(sym, loop) == is_edge(sym)

\* The symbol is an edge variable met inside the inner loop.
symtab_defined_inner(sym, loop) == is_edge(sym) /\ loop # NULL

\* apply(gm_symtab_entry*, int): the entry of sym, in the scope of the top
\* statement.  Edge variables are declared in blocks, the edge iterator by
\* a foreach.
apply_symtab(sym) ==
    /\ Running
    /\ atScopeStart
    /\ symScope[sym] = NULL
    /\ IF is_edge(sym) THEN Top.kind = "AST_SENTBLOCK" ELSE Top.kind = "AST_FOREACH"
    /\ symScope' = [symScope EXCEPT ![sym] = Top.id]
    /\ declInner' = IF is_edge(sym) /\ InnerOpen THEN declInner \cup {sym} ELSE declInner
    /\ IF symtab_defined_inner(sym, inner_loop)
       THEN /\ EDGE_DEFINED_INNER' = EDGE_DEFINED_INNER \cup {sym}
            /\ EDGE_DEFINING_INNER' = EDGE_DEFINING_INNER \cup {inner_loop}
       ELSE UNCHANGED <<EDGE_DEFINED_INNER, EDGE_DEFINING_INNER>>
    /\ ret' = apply_return
    /\ UNCHANGED <<stack, nextId, atScopeStart, nExprs, pc, inner_iter,
                   inner_loop, target_is_edge_prop, _error, okay,
                   MAP_EDGE_PROP_ACCESS, LIST_EDGE_PROP_WRITE,
                   EDGE_DEFINING_WRITE, reports, events, binds>>

\* The condition of (case 2), as the code evaluates it: the scope, an int
\* annotation, read through find_info_bool and compared with the enumerators.
rhs_scope_check(e) ==
    \/ BoolToInt(find_info_bool(add_info_int(e.scope))) = GPS_NEW_SCOPE_IN
    \/ BoolToInt(find_info_bool(add_info_int(e.scope))) = GPS_NEW_SCOPE_RANDOM

\* Mutant of expr_reads_edge_prop: is_edge() in place of is_edge_compatible().
expr_reads_through_edge(e) == e.form = "field" /\ is_edge(e.first)

\* The expression is a field access whose source type is edge-compatible.
expr_reads_edge_prop(e) == e.form = "field" /\ is_edge_compatible(e.first)

\* (case 1): the edge read through is not defined in the inner loop.
expr_is_random_read(e, defined_inner) == e.first \notin defined_inner

\* apply(ast_expr*): e is an expression of the top statement (the right-hand
\* side of an assignment, a condition, a filter).
apply_expr(e) ==
    /\ Running
    /\ Top.kind \in {"AST_ASSIGN", "AST_IF", "AST_WHILE", "AST_FOREACH"}
    /\ Visible(e.first)
    /\ nExprs' = nExprs + 1
    /\ atScopeStart' = FALSE
    /\ ret' = apply_return
    /\ UNCHANGED <<stack, nextId, symScope, inner_iter, inner_loop,
                   target_is_edge_prop, okay, EDGE_DEFINED_INNER,
                   EDGE_DEFINING_INNER, LIST_EDGE_PROP_WRITE, EDGE_DEFINING_WRITE,
                   declInner, binds>>
    /\ LET case2 == target_is_edge_prop /\ rhs_scope_check(e)
                    /\ e.form \in {"field", "id"}
           rep2 == IF case2
                   THEN <<Report("EDGE_WRITE_RHS", Top.id, e.first, inner_loop, e.second)>>
                   ELSE <<>>
           b == manage_edge_prop_access_state(
                    find_info_map_value(MAP_EDGE_PROP_ACCESS, inner_loop, e.second),
                    SENDING)
       IN  IF ~expr_reads_edge_prop(e)
           THEN /\ reports' = reports \o rep2
                /\ _error' = IF case2 THEN set_error(TRUE) ELSE _error
                /\ UNCHANGED <<pc, MAP_EDGE_PROP_ACCESS, events>>
           ELSE IF expr_is_random_read(e, EDGE_DEFINED_INNER)
           THEN /\ reports' = (reports \o rep2) \o
                        <<Report("EDGE_READ_RANDOM", Top.id, "", inner_loop, e.second)>>
                /\ _error' = set_error(TRUE)
                /\ UNCHANGED <<pc, MAP_EDGE_PROP_ACCESS, events>>
           ELSE IF inner_loop = NULL
           THEN /\ pc' = "abort"
                /\ reports' = reports \o rep2
                /\ _error' = IF case2 THEN set_error(TRUE) ELSE _error
                /\ UNCHANGED <<MAP_EDGE_PROP_ACCESS, events>>
           ELSE /\ MAP_EDGE_PROP_ACCESS' =
                     [MAP_EDGE_PROP_ACCESS EXCEPT ![inner_loop][e.second] = b.state]
                /\ events' = [events EXCEPT ![inner_loop][e.second] = Append(@, SENDING)]
                /\ reports' =
                     IF b.is_error
                     THEN (reports \o rep2) \o
                          <<Report("EDGE_SEND_VERSIONS", Top.id, e.first,
                                   inner_loop, e.second)>>
                     ELSE reports \o rep2
                /\ _error' = IF b.is_error \/ case2 THEN set_error(TRUE) ELSE _error
                /\ pc' = pc

\* Mutant of apply2_target_is_edge_prop: the flag is never cleared.
apply2_keeps_target_is_edge_prop(kind, cur) == cur

\* apply2 on an assignment closes the window of (case 2).
apply2_target_is_edge_prop(kind, cur) == IF kind = "AST_ASSIGN" THEN FALSE ELSE cur

\* Mutant of apply2_leaves_inner_loop: every foreach left clears the loop.
apply2_leaves_any_loop(kind, id, loop) == kind = "AST_FOREACH"

\* apply2 is leaving the current inner loop.
apply2_leaves_inner_loop(kind, id, loop) == kind = "AST_FOREACH" /\ id = loop

\* apply2(ast_sent*): the post-order visit of the top statement.
apply2_sent ==
    /\ pc = "run"
    /\ stack # <<>>
    /\ stack' = SubSeq(stack, 1, Len(stack) - 1)
    /\ atScopeStart' = FALSE
    /\ ret' = apply_return
    /\ IF apply2_leaves_inner_loop(Top.kind, Top.id, inner_loop)
       THEN inner_loop' = NULL /\ inner_iter' = NULL
       ELSE UNCHANGED <<inner_loop, inner_iter>>
    /\ target_is_edge_prop' = apply2_target_is_edge_prop(Top.kind, target_is_edge_prop)
    /\ UNCHANGED <<nextId, nExprs, symScope, pc, _error, okay,
                   MAP_EDGE_PROP_ACCESS, EDGE_DEFINED_INNER, EDGE_DEFINING_INNER,
                   LIST_EDGE_PROP_WRITE, EDGE_DEFINING_WRITE, reports, events,
                   declInner, binds>>

\* set_okay(!T2.is_error())
process_okay(is_error) == IF ~is_error THEN "ok" ELSE "failed"

\* gm_gps_opt_check_edge_value::process, after traverse_both has returned.
process ==
    /\ pc = "run"
    /\ stack = <<>>
    /\ okay' = process_okay(_error)
    /\ pc' = "done"
    /\ UNCHANGED <<stack, nextId, atScopeStart, nExprs, symScope, ret,
                   inner_iter, inner_loop, target_is_edge_prop, _error,
                   MAP_EDGE_PROP_ACCESS, EDGE_DEFINED_INNER, EDGE_DEFINING_INNER,
                   LIST_EDGE_PROP_WRITE, EDGE_DEFINING_WRITE, reports, events,
                   declInner, binds>>

Next ==
    \/ \E is_inner \in BOOLEAN :
          StmtRoom(MaxStmts, MaxDepth) /\ apply_sent_foreach(is_inner)
    \/ \E kind \in {"AST_SENTBLOCK", "AST_WHILE", "AST_IF"} :
          StmtRoom(MaxStmts, MaxDepth) /\ apply_sent_other(kind)
    \/ \E a \in Assigns : StmtRoom(MaxStmts, MaxDepth) /\ apply_sent_assign(a)
    \/ \E sym \in SpecDeclSyms : apply_symtab(sym)
    \/ \E e \in Exprs : ExprRoom(MaxExprs) /\ apply_expr(e)
    \/ apply2_sent
    \/ process

Spec == Init /\ [][Next]_vars

\* ------------------------------------------------------------ one inner loop
\* The accesses of one inner loop in depth: the traversal has entered
\*   { Foreach (s: n.Nbrs) { Edge e; ...
\* (the body block 1, the inner loop 2, its block 3 declaring e) and goes on
\* with a sequence of assignments in that block: writes of e.A and e.B, and
\* assignments to x and s.A whose right-hand sides read e.A and e.B.
InitFsm ==
    /\ stack = <<Stmt("AST_SENTBLOCK", 1, FALSE, NoAssign),
                 Stmt("AST_FOREACH", 2, TRUE, NoAssign),
                 Stmt("AST_SENTBLOCK", 3, FALSE, NoAssign)>>
    /\ nextId = 4
    /\ atScopeStart = TRUE
    /\ nExprs = 0
    /\ symScope = [sym \in DeclSyms |-> IF sym = "e" THEN 3 ELSE NULL]
    /\ pc = "run"
    /\ ret = TRUE
    /\ inner_iter = 2
    /\ inner_loop = 2
    /\ target_is_edge_prop = FALSE
    /\ _error = FALSE
    /\ okay = "unset"
    /\ MAP_EDGE_PROP_ACCESS = [fe \in Nodes |-> [e \in Props |-> NO_STATE]]
    /\ EDGE_DEFINED_INNER = {"e"}
    /\ EDGE_DEFINING_INNER = {2}
    /\ LIST_EDGE_PROP_WRITE = [fe \in Nodes |-> <<>>]
    /\ EDGE_DEFINING_WRITE = {}
    /\ reports = <<>>
    /\ events = [fe \in Nodes |-> [e \in Props |-> <<>>]]
    /\ declInner = {"e"}
    /\ binds = [sym \in EdgeSyms |-> [n |-> 0, to_edge_inner |-> 0]]

FsmAssigns ==
    [scalar : {TRUE}, first : {"x"}, second : {"A"}, rhs : {"EXPR"}, drv : {NULL}]
    \cup [scalar : {FALSE}, first : {"e", "s"}, second : Props,
          rhs : {"EXPR"}, drv : {NULL}]

FsmExprs ==
    [form : {"field"}, first : {"e"}, second : Props, scope : {GPS_NEW_SCOPE_EDGE}]

NextFsm ==
    \/ \E a \in FsmAssigns :
          StmtRoom(3 + MaxFsmStmts, MaxDepth) /\ apply_sent_assign(a)
    \/ \E e \in FsmExprs : ExprRoom(MaxFsmExprs) /\ apply_expr(e)
    \/ apply2_sent
    \/ process

SpecFsm == InitFsm /\ [][NextFsm]_vars

\* ------------------------------------------------------------ two inner loops
\* The traversal of
\*   { Foreach (s: n.Nbrs) { Edge e; ... }  Foreach (s: n.Nbrs) { Edge f; ... } }
\* from inside the first inner loop's block (InitFsm) on: assignments and
\* ifs in the first loop, then a second marked loop, its block declaring the
\* Edge variable f, and its accesses.  (Blocks are bodies of loops or
\* statements of the procedure's body here; in the latter f is declared
\* outside every inner loop.)
LoopsAssigns ==
    [scalar : {TRUE}, first : {"x"}, second : {"A"}, rhs : {"EXPR"}, drv : {NULL}]
    \cup [scalar : {FALSE}, first : {"e", "f"}, second : Props,
          rhs : {"EXPR"}, drv : {NULL}]
    \cup [scalar : {FALSE}, first : {"s"}, second : {"A"},
          rhs : {"EXPR"}, drv : {NULL}]

LoopsExprs ==
    [form : {"field"}, first : {"e", "f"}, second : Props, scope : {GPS_NEW_SCOPE_EDGE}]

NextLoops ==
    \/ \E a \in LoopsAssigns :
          StmtRoom(3 + MaxLoopsStmts, MaxDepth) /\ apply_sent_assign(a)
    \/ \E kind \in {"AST_SENTBLOCK", "AST_IF"} :
          /\ StmtRoom(3 + MaxLoopsStmts, MaxDepth)
          /\ kind = "AST_SENTBLOCK"
             => (stack # <<>> /\ (Top.kind = "AST_FOREACH" \/ Len(stack) = 1))
          /\ apply_sent_other(kind)
    \/ StmtRoom(3 + MaxLoopsStmts, MaxDepth) /\ apply_sent_foreach(TRUE)
    \/ apply_symtab("f")
    \/ \E e \in LoopsExprs : ExprRoom(MaxLoopsExprs) /\ apply_expr(e)
    \/ apply2_sent
    \/ process

SpecLoops == InitFsm /\ [][NextLoops]_vars

\* InitFsm is a state of Spec.
AtInitFsm ==
    /\ stack = <<Stmt("AST_SENTBLOCK", 1, FALSE, NoAssign),
                 Stmt("AST_FOREACH", 2, TRUE, NoAssign),
                 Stmt("AST_SENTBLOCK", 3, FALSE, NoAssign)>>
    /\ symScope = [sym \in DeclSyms |-> IF sym = "e" THEN 3 ELSE NULL]
    /\ atScopeStart /\ nExprs = 0 /\ inner_iter = 2 /\ inner_loop = 2
    /\ EDGE_DEFINED_INNER = {"e"} /\ EDGE_DEFINING_INNER = {2}
    /\ reports = <<>> /\ ~_error /\ ~target_is_edge_prop

\* ------------------------------------------------------------ claims
\* The transition table of the version-transport rule, as the specification
\* states it, and its left fold over a sequence of events.
Table(st, op) ==
    CASE st = NO_STATE     -> IF op = SENDING THEN "SENT" ELSE "WRITE"
      [] st = "WRITE"      -> IF op = SENDING THEN "WRITE_SENT" ELSE "WRITE"
      [] st = "SENT"       -> IF op = WRITING THEN "SENT_WRITE" ELSE "SENT"
      [] st = "WRITE_SENT" -> IF op = WRITING THEN "SENT_WRITE" ELSE "WRITE_SENT"
      [] st = "SENT_WRITE" -> IF op = WRITING THEN "SENT_WRITE" ELSE "ERROR"
      [] st = "ERROR"      -> "ERROR"

RECURSIVE FoldTable(_, _)
FoldTable(st, ops) ==
    IF ops = <<>> THEN st ELSE FoldTable(Table(st, Head(ops)), Tail(ops))

\* The EDGE_SEND_VERSIONS reports in rs about property p in loop fe.
SendVersions(rs, fe, p) ==
    {i \in 1..Len(rs) : rs[i].kind = "EDGE_SEND_VERSIONS"
                        /\ rs[i].loop = fe /\ rs[i].prop = p}

\* C1: after any sequence of write/send events on one (inner loop, symbol)
\* pair, the stored state is the left fold of the transition table over the
\* sequence, starting from "no state".
C1_StateIsFoldOfTable ==
    \A fe \in Nodes, p \in Props :
        MAP_EDGE_PROP_ACCESS[fe][p] = FoldTable(NO_STATE, events[fe][p])

\* C1's case: write, send, write has taken a pair through WRITE_SENT to
\* SENT_WRITE.
C1_Witness ==
    \E fe \in Nodes, p \in Props :
        /\ events[fe][p] = <<WRITING, SENDING, WRITING>>
        /\ MAP_EDGE_PROP_ACCESS[fe][p] = "SENT_WRITE"

\* C2: EDGE_SEND_VERSIONS is reported at an event on a pair if and only if
\* the event is a send and the pair's state just before it is SENT_WRITE; no
\* write and no send in another state reports it.
C2_ReportIffSendInSentWrite ==
    [][\A fe \in Nodes, p \in Props :
          (SendVersions(reports', fe, p) # SendVersions(reports, fe, p))
          <=> (/\ events'[fe][p] = Append(events[fe][p], SENDING)
               /\ MAP_EDGE_PROP_ACCESS[fe][p] = "SENT_WRITE")]_vars

\* C2's case: a send in SENT_WRITE has been reported, and a write in
\* SENT_WRITE (which reports nothing) came before it.
C2_Witness ==
    \E fe \in Nodes, p \in Props :
        /\ events[fe][p] = <<SENDING, WRITING, WRITING, SENDING>>
        /\ Cardinality(SendVersions(reports, fe, p)) = 1

\* C3: ERROR is terminal.  Once a pair is in ERROR, every later event leaves
\* it in ERROR and the state machine reports nothing more for the pair, so
\* EDGE_SEND_VERSIONS is reported at most once per pair.
C3_ErrorIsTerminal ==
    /\ [][\A fe \in Nodes, p \in Props :
             MAP_EDGE_PROP_ACCESS[fe][p] = "ERROR"
             => /\ MAP_EDGE_PROP_ACCESS'[fe][p] = "ERROR"
                /\ SendVersions(reports', fe, p) = SendVersions(reports, fe, p)]_vars
    /\ [](\A fe \in Nodes, p \in Props : Cardinality(SendVersions(reports, fe, p)) <= 1)

\* C3's case: a pair in ERROR has taken a further send and a further write.
C3_Witness ==
    \E fe \in Nodes, p \in Props :
        /\ events[fe][p] = <<SENDING, WRITING, SENDING, SENDING, WRITING>>
        /\ MAP_EDGE_PROP_ACCESS[fe][p] = "ERROR"
        /\ Cardinality(SendVersions(reports, fe, p)) = 1

\* The statement kinds that make a write conditional.
CondKinds == {"AST_WHILE", "AST_IF", "AST_FOREACH"}

\* The top statement is an assignment to an edge property.
TopIsEdgePropAssign ==
    /\ stack # <<>>
    /\ Top.kind = "AST_ASSIGN"
    /\ ~Top.a.scalar
    /\ is_edge_compatible(Top.a.first)

\* The position in `stack` of the innermost open loop marked as inner loop
\* (0: none).
InnerIndex ==
    LET S == {i \in 1..Len(stack) : stack[i].is_inner}
    IN  IF S = {} THEN 0 ELSE CHOOSE i \in S : \A j \in S : j <= i

\* Some ancestor strictly between the top statement and its inner loop is a
\* while, an if or a foreach.
ConditionalAncestor ==
    /\ InnerIndex > 0
    /\ \E i \in (InnerIndex + 1)..(Len(stack) - 1) : stack[i].kind \in CondKinds

ReportedAt(kind, id) ==
    \E i \in 1..Len(reports) : reports[i].kind = kind /\ reports[i].at = id

\* C4 as claimed: every assignment to an edge property inside an inner loop
\* reports EDGE_WRITE_CONDITIONAL if and only if it has a conditional
\* ancestor below its inner loop, whether or not the edge variable is flagged
\* as defined in the inner loop.
C4_ConditionalWriteAnyEdge ==
    (TopIsEdgePropAssign /\ InnerOpen)
    => (ReportedAt("EDGE_WRITE_CONDITIONAL", Top.id) <=> ConditionalAncestor)

\* C4, amended: an assignment to an edge property reports
\* EDGE_WRITE_CONDITIONAL if and only if its edge variable is flagged as
\* defined in the inner loop and it has a conditional ancestor below its
\* inner loop.
C4_ConditionalWriteFlaggedEdge ==
    TopIsEdgePropAssign
    => (ReportedAt("EDGE_WRITE_CONDITIONAL", Top.id)
        <=> (Top.a.first \in EDGE_DEFINED_INNER /\ ConditionalAncestor))

\* C4's case: a write through a flagged edge variable, under a while inside
\* the inner loop, has been reported.
C4_Witness ==
    /\ TopIsEdgePropAssign
    /\ Top.a.first \in EDGE_DEFINED_INNER
    /\ stack[Len(stack) - 1].kind = "AST_WHILE"
    /\ ReportedAt("EDGE_WRITE_CONDITIONAL", Top.id)

\* C5 as claimed: after the pass an edge variable is flagged as defined in
\* the inner loop if and only if its one binding assignment is a ToEdge
\* conversion inside an inner loop.
C5_FlagIffBoundByToEdge ==
    pc = "done"
    => \A sym \in EdgeSyms :
          sym \in EDGE_DEFINED_INNER
          <=> (binds[sym].n = 1 /\ binds[sym].to_edge_inner = 1)

\* C5, amended: an edge variable is flagged as defined in the inner loop if
\* and only if it is declared inside a loop marked as inner loop, however it
\* is bound.
C5_FlagIffDeclaredInInnerLoop ==
    \A sym \in EdgeSyms : sym \in EDGE_DEFINED_INNER <=> sym \in declInner

\* C5's case: after the pass, an edge variable declared inside the inner
\* loop and never bound is flagged.
C5_Witness ==
    /\ pc = "done"
    /\ "e" \in declInner
    /\ "e" \in EDGE_DEFINED_INNER
    /\ binds["e"].n = 0

\* C6: every visited read of an edge property through an edge variable
\* without the flag reports EDGE_READ_RANDOM, fails the pass, and applies no
\* event to any state machine, wherever it is.
C6_RandomReadReported ==
    [][\A e \in Exprs :
          (/\ apply_expr(e)
           /\ e.form = "field"
           /\ is_edge_compatible(e.first)
           /\ e.first \notin EDGE_DEFINED_INNER)
          => /\ Len(reports') > Len(reports)
             /\ reports'[Len(reports')].kind = "EDGE_READ_RANDOM"
             /\ _error'
             /\ MAP_EDGE_PROP_ACCESS' = MAP_EDGE_PROP_ACCESS
             /\ events' = events]_vars

\* C6's case: a random read inside an if inside an inner loop has been
\* reported.
C6_Witness ==
    /\ stack # <<>>
    /\ Top.kind = "AST_IF"
    /\ InnerOpen
    /\ reports # <<>>
    /\ reports[Len(reports)].kind = "EDGE_READ_RANDOM"
    /\ reports[Len(reports)].at = Top.id

\* C7 as claimed: inside the right-hand side of an edge-property write, every
\* field access or identifier of scope "inner" or "random" reports
\* EDGE_WRITE_RHS naming its base symbol and fails the pass.
C7_InnerScopedRhsReported ==
    [][\A e \in Exprs :
          (/\ apply_expr(e)
           /\ target_is_edge_prop
           /\ e.scope \in {GPS_NEW_SCOPE_IN, GPS_NEW_SCOPE_RANDOM})
          => /\ \E i \in (Len(reports) + 1)..Len(reports') :
                    /\ reports'[i].kind = "EDGE_WRITE_RHS"
                    /\ reports'[i].name = e.first
             /\ _error']_vars

\* C8: target_is_edge_prop is true only while the traversal is inside an
\* assignment to an edge property, and EDGE_WRITE_RHS is only ever reported
\* in such an assignment.
C8_TargetFlagOnlyInEdgePropWrite ==
    /\ target_is_edge_prop => TopIsEdgePropAssign
    /\ \A i \in 1..Len(reports) :
          reports[i].kind = "EDGE_WRITE_RHS"
          => \E fe \in Nodes : \E j \in 1..Len(LIST_EDGE_PROP_WRITE[fe]) :
                LIST_EDGE_PROP_WRITE[fe][j] = reports[i].at

\* C8's case: after an edge-property write has been left, the traversal is
\* inside a later scalar assignment and the flag is down.
C8_Witness ==
    /\ stack # <<>>
    /\ Top.kind = "AST_ASSIGN"
    /\ Top.a.scalar
    /\ \E fe \in Nodes : LIST_EDGE_PROP_WRITE[fe] # <<>>
    /\ ~target_is_edge_prop

\* C9: the error flag is true exactly when a diagnostic has been reported,
\* it never goes back to false, and the pass is ok exactly when nothing was
\* reported.
C9_ErrorIffReported ==
    /\ [](_error <=> reports # <<>>)
    /\ [][_error => _error']_vars
    /\ [](pc = "done" => (okay = "ok" <=> reports = <<>>))

\* C9's case: a pass that reported a diagnostic has ended as failed.
C9_Witness == pc = "done" /\ okay = "failed" /\ reports # <<>>

\* C10: every callback returns "continue", and no report ends the traversal.
C10_NeverStops == ret = TRUE /\ (reports # <<>> => pc # "abort")

\* C10's case: after a first diagnostic the traversal went on and reported
\* a second, independent one.
C10_Witness ==
    \E i, j \in 1..Len(reports) :
        /\ i < j
        /\ reports[i].kind = "EDGE_WRITE_CONDITIONAL"
        /\ reports[j].kind = "EDGE_READ_RANDOM"

\* C11 as claimed: a read of an edge property inside the right-hand side of
\* an edge-property write is no send event: it leaves every state machine
\* and every event history as they are.
C11_RhsReadIsNoSend ==
    [][\A e \in FsmExprs :
          (apply_expr(e) /\ target_is_edge_prop)
          => /\ MAP_EDGE_PROP_ACCESS' = MAP_EDGE_PROP_ACCESS
             /\ events' = events]_vars

\* A send, a later write and a still later send are in ops.
HasSendWriteSend(ops) ==
    \E i, j, k \in 1..Len(ops) :
        /\ i < j /\ j < k
        /\ ops[i] = SENDING /\ ops[j] = WRITING /\ ops[k] = SENDING

\* C12: for one property in one inner loop, EDGE_SEND_VERSIONS is reported,
\* once, exactly for the event sequences that hold a send, a later write and
\* a still later send; every other sequence is accepted, and a pass whose
\* accesses are those of Scenario A (A: write, send, write; B: send, write)
\* ends ok.
C12_ReportIffSendWriteSend ==
    /\ \A fe \in Nodes, p \in Props :
          /\ SendVersions(reports, fe, p) # {} <=> HasSendWriteSend(events[fe][p])
          /\ MAP_EDGE_PROP_ACCESS[fe][p] = "ERROR" <=> HasSendWriteSend(events[fe][p])
    /\ (/\ pc = "done"
        /\ \A fe \in Nodes, p \in Props : ~HasSendWriteSend(events[fe][p]))
       => okay = "ok" /\ reports = <<>>

\* C12's case: Scenario A has been traversed to its end and has passed.
C12_Witness ==
    /\ pc = "done"
    /\ events[2]["A"] = <<WRITING, SENDING, WRITING>>
    /\ events[2]["B"] = <<SENDING, WRITING>>
    /\ MAP_EDGE_PROP_ACCESS[2]["A"] = "SENT_WRITE"
    /\ MAP_EDGE_PROP_ACCESS[2]["B"] = "SENT_WRITE"
    /\ okay = "ok"
    /\ reports = <<>>

\* The innermost open loop marked as inner loop, or NULL.
OpenInnerLoop == IF InnerIndex > 0 THEN stack[InnerIndex].id ELSE NULL

\* C13: between the pre-order and the post-order visit of a loop marked as
\* inner loop, inner_loop is that loop and inner_iter its iterator; outside
\* every such loop, and after the traversal, both are NULL.
C13_InnerLoopIsOpenMarkedLoop ==
    /\ inner_loop = OpenInnerLoop
    /\ inner_iter = OpenInnerLoop
    /\ pc = "done" => (inner_loop = NULL /\ inner_iter = NULL)

\* C13's case: the traversal is in an unmarked foreach, inside a marked
\* foreach, inside an unmarked foreach.
C13_Witness ==
    /\ Len(stack) >= 4
    /\ Top.kind = "AST_FOREACH" /\ ~Top.is_inner
    /\ stack[Len(stack) - 1].kind = "AST_FOREACH" /\ stack[Len(stack) - 1].is_inner
    /\ stack[Len(stack) - 2].kind = "AST_FOREACH" /\ ~stack[Len(stack) - 2].is_inner
    /\ inner_loop = stack[Len(stack) - 1].id

\* C14: no assertion of the pass fails.  Wherever an edge variable flagged
\* as defined in the inner loop can be named, the current inner loop is not
\* NULL; the walk up from an assignment through such a variable ends at the
\* inner loop or at a while, an if or a foreach, never at a NULL parent, and
\* the write is recorded in the inner loop's list.
C14_AssertionsHold ==
    /\ pc # "abort"
    /\ (\E sym \in EDGE_DEFINED_INNER : Visible(sym)) => inner_loop # NULL
    /\ (TopIsEdgePropAssign /\ Top.a.first \in EDGE_DEFINED_INNER)
       => /\ check_conditional(stack, Len(stack) - 1, inner_loop) # "assert"
          /\ inner_loop # NULL
          /\ LIST_EDGE_PROP_WRITE[inner_loop] # <<>>
          /\ LIST_EDGE_PROP_WRITE[inner_loop][Len(LIST_EDGE_PROP_WRITE[inner_loop])] = Top.id

\* C14's case: a write through a flagged edge variable, two blocks below
\* the inner loop, has been recorded after a walk over both blocks.
C14_Witness ==
    /\ TopIsEdgePropAssign
    /\ Top.a.first \in EDGE_DEFINED_INNER
    /\ Len(stack) >= 4
    /\ stack[Len(stack) - 1].kind = "AST_SENTBLOCK"
    /\ stack[Len(stack) - 2].kind = "AST_SENTBLOCK"
    /\ stack[Len(stack) - 3].id = inner_loop
    /\ events[inner_loop][Top.a.second] = <<WRITING>>

\* C15: conditionality does not reach the state machines.  Every write
\* through a flagged edge variable, reported as conditional or not, applies
\* the write transition to its property, and every read through a flagged
\* edge variable, in a condition or not, applies the send transition.
C15_ConditionalAccessSameTransition ==
    /\ [][(/\ nextId' = nextId + 1
           /\ Top'.kind = "AST_ASSIGN"
           /\ ~Top'.a.scalar
           /\ is_edge_compatible(Top'.a.first)
           /\ Top'.a.first \in EDGE_DEFINED_INNER)
          => /\ inner_loop # NULL
             /\ MAP_EDGE_PROP_ACCESS'[inner_loop][Top'.a.second]
                  = Table(MAP_EDGE_PROP_ACCESS[inner_loop][Top'.a.second], WRITING)
             /\ events'[inner_loop][Top'.a.second]
                  = Append(events[inner_loop][Top'.a.second], WRITING)]_vars
    /\ [][\A e \in Exprs :
             (/\ apply_expr(e)
              /\ e.form = "field"
              /\ is_edge_compatible(e.first)
              /\ e.first \in EDGE_DEFINED_INNER)
             => /\ inner_loop # NULL
                /\ MAP_EDGE_PROP_ACCESS'[inner_loop][e.second]
                     = Table(MAP_EDGE_PROP_ACCESS[inner_loop][e.second], SENDING)
                /\ events'[inner_loop][e.second]
                     = Append(events[inner_loop][e.second], SENDING)]_vars

\* C15's case: 'If (e.A > 0) e.A = 1': the read in the condition has sent A,
\* and the write, reported as conditional, has taken A to SENT_WRITE.
C15_Witness ==
    /\ TopIsEdgePropAssign
    /\ stack[Len(stack) - 1].kind = "AST_IF"
    /\ ReportedAt("EDGE_WRITE_CONDITIONAL", Top.id)
    /\ inner_loop # NULL
    /\ events[inner_loop][Top.a.second] = <<SENDING, WRITING>>
    /\ MAP_EDGE_PROP_ACCESS[inner_loop][Top.a.second] = "SENT_WRITE"

\* C16 as claimed: an assignment gets GPS_FLAG_EDGE_DEFINING_WRITE only if
\* its target is a scalar edge variable flagged as defined in the inner loop
\* and its right-hand side is ToEdge() driven by the current inner loop's
\* iterator.
C16_DefiningWriteOnlyFromInnerIterator ==
    [][\A a \in Assigns :
          (apply_sent_assign(a) /\ nextId \in EDGE_DEFINING_WRITE')
          => /\ a.scalar
             /\ is_edge(a.first)
             /\ a.first \in EDGE_DEFINED_INNER
             /\ a.rhs = "GM_BLTIN_NODE_TO_EDGE"
             /\ inner_iter # NULL
             /\ a.drv = inner_iter]_vars

\* The statement is an assignment to a property through an edge variable
\* flagged as defined in the inner loop.
IsFlaggedEdgePropWrite(st) ==
    /\ st.kind = "AST_ASSIGN"
    /\ ~st.a.scalar
    /\ is_edge_compatible(st.a.first)
    /\ st.a.first \in EDGE_DEFINED_INNER

\* C17: the list of an inner loop holds exactly the assignments inside the
\* loop that write a property through a flagged edge variable, once each and
\* in visit order, those reported as conditional included.  Entering such
\* an assignment appends it to the list of the open inner loop; no other
\* step (a scalar, node-property or unflagged target, any other node)
\* changes any list.
C17_ListIsFlaggedEdgePropWrites ==
    /\ [](\A fe \in Nodes : \A i, j \in 1..Len(LIST_EDGE_PROP_WRITE[fe]) :
             i < j => LIST_EDGE_PROP_WRITE[fe][i] < LIST_EDGE_PROP_WRITE[fe][j])
    /\ [][IF nextId' = nextId + 1 /\ IsFlaggedEdgePropWrite(Top')
          THEN /\ OpenInnerLoop # NULL
               /\ LIST_EDGE_PROP_WRITE' =
                    [LIST_EDGE_PROP_WRITE EXCEPT
                        ![OpenInnerLoop] = Append(@, nextId)]
          ELSE LIST_EDGE_PROP_WRITE' = LIST_EDGE_PROP_WRITE]_vars

\* C17's case: after the pass, the first inner loop lists two writes, the
\* second of them reported as conditional, and a later inner loop lists its
\* own write.
C17_Witness ==
    /\ pc = "done"
    /\ \E fe1, fe2 \in Nodes :
          /\ fe1 < fe2
          /\ Len(LIST_EDGE_PROP_WRITE[fe1]) = 2
          /\ ReportedAt("EDGE_WRITE_CONDITIONAL", LIST_EDGE_PROP_WRITE[fe1][2])
          /\ ~ReportedAt("EDGE_WRITE_CONDITIONAL", LIST_EDGE_PROP_WRITE[fe1][1])
          /\ Len(LIST_EDGE_PROP_WRITE[fe2]) = 1

\* C18: the state machines are independent.  A pair's state is determined
\* by its own events alone (none: no state), no step changes the state or
\* the events of more than one pair, and no loop not yet entered has a state
\* for any symbol.
C18_PairsAreIndependent ==
    /\ [](\A fe \in Nodes, p \in Props :
             /\ MAP_EDGE_PROP_ACCESS[fe][p] = FoldTable(NO_STATE, events[fe][p])
             /\ events[fe][p] = <<>> => MAP_EDGE_PROP_ACCESS[fe][p] = NO_STATE
             /\ fe >= nextId => MAP_EDGE_PROP_ACCESS[fe][p] = NO_STATE)
    /\ [][Cardinality({pair \in Nodes \X Props :
                \/ MAP_EDGE_PROP_ACCESS'[pair[1]][pair[2]]
                      # MAP_EDGE_PROP_ACCESS[pair[1]][pair[2]]
                \/ events'[pair[1]][pair[2]] # events[pair[1]][pair[2]]}) <= 1]_vars

\* C18's case: A has reached ERROR in the first inner loop, and in a later
\* inner loop a first write has taken A to WRITE; B has no state in either.
C18_Witness ==
    \E fe \in Nodes :
        /\ fe > 2
        /\ MAP_EDGE_PROP_ACCESS[2]["A"] = "ERROR"
        /\ MAP_EDGE_PROP_ACCESS[fe]["A"] = "WRITE"
        /\ MAP_EDGE_PROP_ACCESS[2]["B"] = NO_STATE
        /\ MAP_EDGE_PROP_ACCESS[fe]["B"] = NO_STATE

====
